---- MODULE Spec2Model ----
(***************************************************************************)
(* A model of the scraper of src/main.go: the Scraper object (its target   *)
(* list, its registry of custom parsers, its concurrency ceiling and its   *)
(* SQLite store with the tables scraped_data and word_counts), the         *)
(* concurrent pipeline of Scraper.Run / Scraper.ProcessSite, and the       *)
(* sequential program of main (schema set-up, optional clear, the word     *)
(* search over every (site, word) pair, the grouped CSV export).           *)
(*                                                                         *)
(* Two specifications share the variables:                                 *)
(*   SpecRun  one call of Scraper.Run, one goroutine per entry of Sites;   *)
(*   Spec     the program of main.                                         *)
(* A target is a natural number; the order of the numbers stands for the   *)
(* order SQLite's ORDER BY gives the site strings. Text is a sequence of   *)
(* one-character strings.                                                  *)
(***************************************************************************)
EXTENDS Integers, Sequences, FiniteSets, TLC

\* ------------------------------------------------------------------ bounds

MaxSites == 2

MaxConcurrency == 2

MaxInitRows == 2

\* The page addresses of the model, in the order ORDER BY site gives them.
Targets == {1, 2}

\* Every target list of at most MaxSites entries (an entry may repeat).
SiteLists == UNION {[1..n -> Targets] : n \in 0..MaxSites}

AllTables == {"scraped_data", "word_counts"}

\* The registry of custom parsers: target 1 has one and target 2 has none
\* (a target list without target 1 runs as under an empty registry).
Registries == {{1}}

\* Rows an earlier process left in scraped_data (the store outlives a run).
OldScraped == <<[site |-> 1, data |-> "/old"]>>

\* ------------------------------------------------------------- documents

NoHref == "nohref"

NoDoc == [anchors |-> <<"none">>, body |-> <<>>]

\* What a fetch can return and the parser can build: the <a> elements in
\* document order (the value of href, or NoHref when the attribute is
\* missing) and the text of every element the selector "body" matches.
DocPool ==
  { [anchors |-> <<>>, body |-> <<>>],
    [anchors |-> <<"/x", NoHref, "/y">>, body |-> << <<"N", "e", "n", "E", "x">> >>] }

\* -------------------------------------------------------------- variables

VARIABLES
  Sites,          \* Scraper.Sites
  Concurrency,    \* Scraper.Concurrency
  CustomParsers,  \* the keys of Scraper.CustomParsers
  tables,         \* the tables the database file holds
  scraped_data,   \* table scraped_data, rows in insertion (id) order
  word_counts,    \* table word_counts, rows in insertion (id) order
  runPc,          \* position of the goroutine that executes Run
  runI,           \* index of the range loop of Run
  wg,             \* counter of the sync.WaitGroup
  sem,            \* number of elements buffered in the channel sem
  unit,           \* the goroutine started for each entry of Sites
  mainPc,         \* position of main
  mainI,          \* index into Sites of the search loop of main
  mainJ,          \* index into wordsToSearch of the search loop of main
  clearTable,     \* the -clear flag
  cleared,        \* what ClearWordCountsTable logged: "no" (not called), "ok", "error"
  evaluated,      \* the (site, word) pairs SearchWordInSite was called with
  old,            \* the rows word_counts held when the process started
  inserts,        \* the number of rows this process has added to word_counts
  call,           \* the call of SearchWordInSite in progress or last ended
  export,         \* the state of ExportWordCountsToCSVGrouped
  argText,        \* the argument text of a call of countWordOccurrences
  argWord,        \* the argument word of that call
  occurrences     \* its result, -1 before the call has returned

varsStore == <<tables, scraped_data, word_counts>>

varsConfig == <<Sites, Concurrency, CustomParsers>>

varsRun == <<runPc, runI, wg, sem, unit>>

varsMain ==
  <<mainPc, mainI, mainJ, clearTable, cleared, evaluated, old, inserts, call, export>>

varsCount == <<argText, argWord, occurrences>>

vars == <<varsConfig, varsStore, varsRun, varsMain, varsCount>>

\* ---------------------------------------------------------------- helpers

RECURSIVE SeqSum(_)
SeqSum(s) == IF s = <<>> THEN 0 ELSE Head(s) + SeqSum(Tail(s))

Last(s) == s[Len(s)]

\* The hrefs of a document's anchors, in document order.
Hrefs(anchors) == SelectSeq(anchors, LAMBDA a : a # NoHref)

\* ------------------------------------------------------------ persistence

ScrapedRow(site, data) == [site |-> site, data |-> data]

\* saveData: one INSERT INTO scraped_data; a failed Exec is logged only.
saveDataReplacesSite(db, site, data, ok) ==
  IF ~ok THEN db
  ELSE IF \E k \in 1..Len(db) : db[k].site = site
    THEN [k \in 1..Len(db) |->
            IF db[k].site = site THEN ScrapedRow(site, data) ELSE db[k]]
    ELSE Append(db, ScrapedRow(site, data))

saveData(db, site, data, ok) ==
  IF ok THEN Append(db, ScrapedRow(site, data)) ELSE db

\* ------------------------------------------------------------ ProcessSite

NewUnit ==
  [pc |-> "none", path |-> "none", strategy |-> "none", doc |-> NoDoc,
   parsed |-> FALSE, k |-> 0, tried |-> <<>>, outcome |-> "none",
   body |-> "none"]

\* How a fetch can end: with content, with an error and no response, or, for
\* FetchURL only, with a response whose status is not 200.
FetchOutcomes(path) ==
  IF path = "plain" THEN {"content", "error", "status"} ELSE {"content", "error"}

\* resp.Body after the fetch: FetchURL has a response body whenever
\* HTTPClient.Do returned one, and closes it on no path of its own.
BodyAfter(path, r) == IF path = "plain" /\ r # "error" THEN "open" ELSE "none"

\* defer htmlContent.Close(), run when the function returns.
Close(b) == IF b = "open" THEN "closed" ELSE b

\* The positions of a goroutine between the first and the last statement
\* of ProcessSite.
Processing == {"fetch", "parse", "custom", "links"}

InFlight == {i \in DOMAIN unit : unit[i].pc \in Processing}

\* First registry lookup: which fetcher serves the target.
FetchPathAlwaysPlain(url) == "plain"

FetchPath(url) == IF url \in CustomParsers THEN "rendered" ELSE "plain"

\* Second registry lookup: which strategy runs on the parsed document.
Strategy(url) == IF url \in CustomParsers THEN "custom" ELSE "default"

\* A logged error followed by return: it ends the unit of the failing
\* target and nothing else.
ReturnErrorCancelsAll(u, i, err) ==
  [j \in DOMAIN u |->
     IF j = i \/ u[j].pc \in Processing
       THEN [u[j] EXCEPT !.pc = "release", !.outcome = err]
       ELSE u[j]]

ReturnErrorSkipsDeferred(u, i, err) ==
  [u EXCEPT ![i].pc = "exited", ![i].outcome = err]

ReturnError(u, i, err) ==
  [u EXCEPT ![i].pc = "release", ![i].outcome = err]

\* log.Printf("Processing site"): the goroutine enters ProcessSite.
ProcessSiteBegin(i) ==
  /\ unit[i].pc = "spawned"
  /\ unit' = [unit EXCEPT ![i].pc = "fetch"]
  /\ UNCHANGED <<varsCount, varsConfig, varsStore, runPc, runI, wg, sem, varsMain>>

\* ParseDynamicContent for a registered target, FetchURL for any other;
\* either returns content or an error.
ProcessSiteFetch(i) ==
  /\ unit[i].pc = "fetch"
  /\ LET path == FetchPath(Sites[i])
         u == [unit EXCEPT ![i].path = path]
     IN \E r \in FetchOutcomes(path) :
          LET ub == [u EXCEPT ![i].body = BodyAfter(path, r)]
          IN IF r = "content"
               THEN \E d \in DocPool :
                      unit' = [ub EXCEPT ![i].pc = "parse", ![i].doc = d]
               ELSE unit' = ReturnError(ub, i, "fetch_error")
  /\ UNCHANGED <<varsCount, varsConfig, varsStore, runPc, runI, wg, sem, varsMain>>

\* goquery.NewDocumentFromReader, then the second registry lookup, which
\* selects the custom parser or the default link harvest.
ProcessSiteParse(i) ==
  /\ unit[i].pc = "parse"
  /\ \/ LET s == Strategy(Sites[i])
        IN unit' = [unit EXCEPT ![i].parsed = TRUE,
                                ![i].strategy = s,
                                ![i].pc = IF s = "custom" THEN "custom" ELSE "links",
                                ![i].k = 1]
     \/ unit' = ReturnError([unit EXCEPT ![i].body = Close(@)], i, "parse_error")
  /\ UNCHANGED <<varsCount, varsConfig, varsStore, runPc, runI, wg, sem, varsMain>>

\* parser(doc): an error is logged and ProcessSite returns either way.
ProcessSiteCustom(i) ==
  /\ unit[i].pc = "custom"
  /\ \/ unit' = [unit EXCEPT ![i].pc = "release", ![i].outcome = "completed",
                                ![i].body = Close(@)]
     \/ unit' = ReturnError([unit EXCEPT ![i].body = Close(@)], i, "strategy_error")
  /\ UNCHANGED <<varsCount, varsConfig, varsStore, runPc, runI, wg, sem, varsMain>>

\* One iteration of doc.Find("a").Each: saveData for an anchor with href,
\* nothing for one without.
ProcessSiteLinkEveryAnchor(i) ==
  /\ unit[i].pc = "links"
  /\ unit[i].k <= Len(unit[i].doc.anchors)
  /\ LET link == unit[i].doc.anchors[unit[i].k]
     IN \E ok \in BOOLEAN :
          /\ scraped_data' = saveData(scraped_data, Sites[i], link, ok)
          /\ unit' = [unit EXCEPT
                        ![i].k = @ + 1,
                        ![i].tried = Append(@, [data |-> link, ok |-> ok])]
  /\ UNCHANGED <<varsCount, varsConfig, tables, word_counts, runPc, runI, wg, sem, varsMain>>

ProcessSiteLinkStopsOnError(i) ==
  /\ unit[i].pc = "links"
  /\ unit[i].k <= Len(unit[i].doc.anchors)
  /\ LET link == unit[i].doc.anchors[unit[i].k]
     IN IF link = NoHref
          THEN /\ unit' = [unit EXCEPT ![i].k = @ + 1]
               /\ UNCHANGED scraped_data
          ELSE \E ok \in BOOLEAN :
                 /\ scraped_data' = saveData(scraped_data, Sites[i], link, ok)
                 /\ unit' = [unit EXCEPT
                               ![i].k = @ + 1,
                               ![i].tried = Append(@, [data |-> link, ok |-> ok]),
                               ![i].pc = IF ok THEN @ ELSE "release",
                               ![i].outcome = IF ok THEN @ ELSE "strategy_error"]
  /\ UNCHANGED <<varsCount, varsConfig, tables, word_counts, runPc, runI, wg, sem, varsMain>>

ProcessSiteLink(i) ==
  /\ unit[i].pc = "links"
  /\ unit[i].k <= Len(unit[i].doc.anchors)
  /\ LET link == unit[i].doc.anchors[unit[i].k]
     IN IF link = NoHref
          THEN /\ unit' = [unit EXCEPT ![i].k = @ + 1]
               /\ UNCHANGED scraped_data
          ELSE \E ok \in BOOLEAN :
                 /\ scraped_data' = saveData(scraped_data, Sites[i], link, ok)
                 /\ unit' = [unit EXCEPT
                               ![i].k = @ + 1,
                               ![i].tried = Append(@, [data |-> link, ok |-> ok])]
  /\ UNCHANGED <<varsCount, varsConfig, tables, word_counts, runPc, runI, wg, sem, varsMain>>

\* Each is over: ProcessSite returns.
ProcessSiteReturn(i) ==
  /\ unit[i].pc = "links"
  /\ unit[i].k > Len(unit[i].doc.anchors)
  /\ unit' = [unit EXCEPT ![i].pc = "release", ![i].outcome = "completed",
                          ![i].body = Close(@)]
  /\ UNCHANGED <<varsCount, varsConfig, varsStore, runPc, runI, wg, sem, varsMain>>

\* -------------------------------------------------------------------- Run

\* sem <- struct{}{} proceeds while the buffer has room.
AcquirableOffByOne(n, c) == n <= c

AcquirableAlways(n, c) == TRUE

Acquirable(n, c) == n < c

\* var wg; sem := make(chan struct{}, s.Concurrency)
RunEnter ==
  /\ runPc = "idle"
  /\ runPc' = "loop"
  /\ runI' = 1
  /\ wg' = 0
  /\ sem' = 0
  /\ UNCHANGED <<varsCount, varsConfig, varsStore, unit, varsMain>>

\* for _, site := range s.Sites { wg.Add(1)
RunAdd ==
  /\ runPc = "loop"
  /\ runI <= Len(Sites)
  /\ wg' = wg + 1
  /\ runPc' = "acquire"
  /\ UNCHANGED <<varsCount, varsConfig, varsStore, runI, sem, unit, varsMain>>

\* sem <- struct{}{}
RunAcquire ==
  /\ runPc = "acquire"
  /\ Acquirable(sem, Concurrency)
  /\ sem' = sem + 1
  /\ runPc' = "go"
  /\ UNCHANGED <<varsCount, varsConfig, varsStore, runI, wg, unit, varsMain>>

\* go func(site string) {...}(site)
RunGoLastFirst ==
  /\ runPc = "go"
  /\ unit' = [unit EXCEPT ![Len(Sites) + 1 - runI].pc = "spawned"]
  /\ runI' = runI + 1
  /\ runPc' = "loop"
  /\ UNCHANGED <<varsCount, varsConfig, varsStore, wg, sem, varsMain>>

RunGo ==
  /\ runPc = "go"
  /\ unit' = [unit EXCEPT ![runI].pc = "spawned"]
  /\ runI' = runI + 1
  /\ runPc' = "loop"
  /\ UNCHANGED <<varsCount, varsConfig, varsStore, wg, sem, varsMain>>

\* The range loop is over.
RunLoopEnd ==
  /\ runPc = "loop"
  /\ runI > Len(Sites)
  /\ runPc' = "wait"
  /\ UNCHANGED <<varsCount, varsConfig, varsStore, runI, wg, sem, unit, varsMain>>

\* wg.Wait() returns once the counter is zero.
WaitOverNoBarrier(n) == TRUE

WaitOver(n) == n = 0

RunWait ==
  /\ runPc = "wait"
  /\ WaitOver(wg)
  /\ runPc' = "returned"
  /\ UNCHANGED <<varsCount, varsConfig, varsStore, runI, wg, sem, unit, varsMain>>

\* <-sem, after ProcessSite has returned.
UnitReleaseOnSuccessOnly(i) ==
  /\ unit[i].pc = "release"
  /\ sem > 0
  /\ sem' = IF unit[i].outcome = "completed" THEN sem - 1 ELSE sem
  /\ unit' = [unit EXCEPT ![i].pc = "deferred"]
  /\ UNCHANGED <<varsCount, varsConfig, varsStore, runPc, runI, wg, varsMain>>

UnitRelease(i) ==
  /\ unit[i].pc = "release"
  /\ sem > 0
  /\ sem' = sem - 1
  /\ unit' = [unit EXCEPT ![i].pc = "deferred"]
  /\ UNCHANGED <<varsCount, varsConfig, varsStore, runPc, runI, wg, varsMain>>

\* defer wg.Done()
UnitDone(i) ==
  /\ unit[i].pc = "deferred"
  /\ wg' = wg - 1
  /\ unit' = [unit EXCEPT ![i].pc = "exited"]
  /\ UNCHANGED <<varsCount, varsConfig, varsStore, runPc, runI, sem, varsMain>>

\* ------------------------------------------------------ properties of Run

Ended == {"release", "deferred", "exited"}

CountRows(db, site, data) ==
  Cardinality({k \in 1..Len(db) : db[k].site = site /\ db[k].data = data})

\* The number of rows (Sites[i], data) the unit i has inserted so far.
Wrote(i, data) ==
  Cardinality({k \in 1..Len(unit[i].tried) :
                 unit[i].tried[k].data = data /\ unit[i].tried[k].ok})

TriedData(i) == [k \in 1..Len(unit[i].tried) |-> unit[i].tried[k].data]

AllData ==
  UNION {{d.anchors[k] : k \in 1..Len(d.anchors)} : d \in DocPool}
    \cup {OldScraped[k].data : k \in 1..Len(OldScraped)}

\* Every row a unit has written is in the store, beside the older rows.
WritesStored ==
  \A site \in Targets, data \in AllData :
    CountRows(scraped_data, site, data) =
      CountRows(OldScraped, site, data)
        + SeqSum([i \in 1..Len(Sites) |->
                    IF Sites[i] = site THEN Wrote(i, data) ELSE 0])

\* C1: when Run has returned, every unit it dispatched has left ProcessSite,
\* released its slot and called wg.Done, and every row the units wrote is in
\* the store: nothing that follows Run can overlap a unit.
RunBarrier ==
  runPc = "returned" =>
    /\ \A i \in DOMAIN unit : unit[i].pc = "exited"
    /\ WritesStored

RunBarrierWitness ==
  /\ runPc = "returned"
  /\ Len(Sites) >= 2
  /\ Concurrency >= 2
  /\ \A i \in DOMAIN unit : Wrote(i, "/y") = 1

\* C2: with a capacity of at least 1, the number of goroutines inside
\* ProcessSite never exceeds the capacity.
ConcurrencyCeiling ==
  Concurrency >= 1 => Cardinality(InFlight) <= Concurrency

ConcurrencyCeilingWitness ==
  /\ Concurrency >= 1
  /\ Cardinality(InFlight) = Concurrency
  /\ runPc = "acquire"
  /\ sem = Concurrency

\* C6: a unit fetches through the rendered path exactly when its target is
\* registered and through the plain path exactly when it is not, and the
\* strategy it runs is the custom one exactly when it fetched rendered.
RegistryRouting ==
  \A i \in DOMAIN unit :
    /\ unit[i].path # "none" =>
         /\ unit[i].path = "rendered" <=> Sites[i] \in CustomParsers
         /\ unit[i].path = "plain" <=> Sites[i] \notin CustomParsers
    /\ unit[i].strategy # "none" =>
         (unit[i].strategy = "custom" <=> unit[i].path = "rendered")

RegistryRoutingWitness ==
  \E i, j \in DOMAIN unit :
    /\ Sites[i] \in CustomParsers
    /\ unit[i].path = "rendered"
    /\ unit[i].strategy = "custom"
    /\ unit[j].path = "plain"
    /\ unit[j].strategy = "default"

\* C7: an error ends the unit it occurred in and no other: a unit records
\* an error only of its own fetch, parse or custom parser; a unit whose
\* own fetch and parse succeeded and that runs the default strategy ends
\* completed, having tried every href of its document, with the rows it
\* inserted in the store; and Run still returns only after all units, with
\* the rows of all of them stored.
FailureIsolation ==
  /\ \A i \in DOMAIN unit :
       /\ unit[i].outcome = "fetch_error" => unit[i].doc = NoDoc
       /\ unit[i].outcome = "parse_error" =>
            unit[i].doc # NoDoc /\ ~unit[i].parsed
       /\ unit[i].outcome = "strategy_error" =>
            unit[i].parsed /\ unit[i].strategy = "custom"
       /\ (unit[i].pc \in Ended /\ unit[i].parsed /\ unit[i].strategy = "default") =>
            /\ unit[i].outcome = "completed"
            /\ TriedData(i) = Hrefs(unit[i].doc.anchors)
            /\ \A k \in 1..Len(unit[i].tried) :
                 unit[i].tried[k].ok =>
                   \E r \in 1..Len(scraped_data) :
                     scraped_data[r] = ScrapedRow(Sites[i], unit[i].tried[k].data)
  /\ runPc = "returned" =>
       /\ \A i \in DOMAIN unit : unit[i].outcome # "none"
       /\ WritesStored

FailureIsolationWitness ==
  /\ runPc = "returned"
  /\ Concurrency >= 2
  /\ \E x, y \in DOMAIN unit :
       /\ unit[x].outcome = "strategy_error"
       /\ unit[y].outcome = "completed"
       /\ Wrote(y, "/x") = 1
       /\ Wrote(y, "/y") = 1

\* ------------------------------------------------------------------- main

\* before: the outcome of the call that preceded this one.
NoCall == [pc |-> "none", site |-> 0, word |-> <<>>, doc |-> NoDoc,
           total |-> 0, outcome |-> "none", before |-> "none", body |-> "none"]

NoExport == [pc |-> "none", file |-> <<>>, written |-> <<>>, qrows |-> <<>>,
             siteData |-> <<>>]

MainIdle ==
  /\ mainPc = "off"
  /\ mainI = 0
  /\ mainJ = 0
  /\ clearTable = FALSE
  /\ cleared = "no"
  /\ evaluated = <<>>
  /\ old = word_counts
  /\ inserts = 0
  /\ call = NoCall
  /\ export = NoExport

RunIdle ==
  /\ runPc = "off"
  /\ runI = 0
  /\ wg = 0
  /\ sem = 0
  /\ unit = <<>>

\* No call of countWordOccurrences is under observation.
CountIdle ==
  /\ argText = <<>>
  /\ argWord = <<>>
  /\ occurrences = -1

\* Concurrency: 5 in NewScraper.
DefaultConcurrency == 5

\* The list main assigns to scraper.Sites holds each address once.
MainSiteLists ==
  {l \in SiteLists : \A a, b \in 1..Len(l) : a # b => l[a] # l[b]}

\* wordsToSearch: two lower-case words.
wordsToSearch == << <<"n", "e">>, <<"d">> >>

WordRow(site, word, count) == [site |-> site, word |-> word, count |-> count]

\* Rows earlier processes may have left in word_counts.
OldRowPool == {WordRow(1, <<"n", "e">>, 7), WordRow(2, <<"d">>, 12)}

OldWordCounts == UNION {[1..n -> OldRowPool] : n \in 0..MaxInitRows}

\* ------------------------------------------------------------------- text

\* strings.ToLower on the letters of the model.
ToLowerCh(c) ==
  CASE c = "N" -> "n"
    [] c = "E" -> "e"
    [] c = "D" -> "d"
    [] c = "X" -> "x"
    [] OTHER -> c

ToLower(s) == [k \in 1..Len(s) |-> ToLowerCh(s[k])]

\* Whether sub occurs in s at position p.
MatchAt(s, sub, p) ==
  /\ p + Len(sub) - 1 <= Len(s)
  /\ \A k \in 1..Len(sub) : s[p + k - 1] = sub[k]

\* strings.Count for a non-empty sub: scan from p, count a match and go
\* on behind it.
RECURSIVE CountFrom(_, _, _)
CountFrom(s, sub, p) ==
  IF p + Len(sub) - 1 > Len(s) THEN 0
  ELSE IF MatchAt(s, sub, p) THEN 1 + CountFrom(s, sub, p + Len(sub))
  ELSE CountFrom(s, sub, p + 1)

\* strings.Count: the empty substring counts Len(s) + 1.
Count(s, sub) == IF Len(sub) = 0 THEN Len(s) + 1 ELSE CountFrom(s, sub, 1)

countWordOccurrencesCaseSensitive(text, word) == Count(text, word)

countWordOccurrences(text, word) == Count(ToLower(text), ToLower(word))

\* foundInstances after doc.Find("body").Each.
FoundInstances(doc, word) ==
  SeqSum([k \in 1..Len(doc.body) |-> countWordOccurrences(doc.body[k], word)])

Digit(n) ==
  CASE n = 0 -> "0" [] n = 1 -> "1" [] n = 2 -> "2" [] n = 3 -> "3"
    [] n = 4 -> "4" [] n = 5 -> "5" [] n = 6 -> "6" [] n = 7 -> "7"
    [] n = 8 -> "8" [] n = 9 -> "9"

\* The verb %d on a count that is not negative.
RECURSIVE Dec(_)
Dec(n) == IF n < 10 THEN <<Digit(n)>> ELSE Dec(n \div 10) \o <<Digit(n % 10)>>

\* fmt.Sprintf("%s: %d", word, count)
EntryNoSpace(word, count) == word \o <<":">> \o Dec(count)

Entry(word, count) == word \o <<":", " ">> \o Dec(count)

\* strings.Join(wordCounts, " | ")
RECURSIVE Join(_)
Join(parts) ==
  IF parts = <<>> THEN <<>>
  ELSE IF Len(parts) = 1 THEN parts[1]
  ELSE parts[1] \o <<" ", "|", " ">> \o Join(Tail(parts))

\* Every order in which the elements of a set can be listed.
Orders(S) ==
  {p \in [1..Cardinality(S) -> S] :
     \A a, b \in 1..Cardinality(S) : a # b => p[a] # p[b]}

\* -------------------------------------------------------------- word_counts

\* INSERT INTO word_counts: a failed Exec is logged only.
InsertWordCountSkipZero(db, site, word, count, ok) ==
  IF ok /\ count > 0 THEN Append(db, WordRow(site, word, count)) ELSE db

InsertWordCount(db, site, word, count, ok) ==
  IF ok THEN Append(db, WordRow(site, word, count)) ELSE db

\* What SearchWordInSite leaves in the table when the fetch or the parse
\* failed: it logs and returns.
OnSearchErrorWritesZero(db, site, word) == Append(db, WordRow(site, word, 0))

OnSearchError(db, site, word) == db

\* DELETE FROM word_counts
ClearRowsKeepsOthers(db) == SelectSeq(db, LAMBDA r : r.site # 1)

ClearRows(db) == <<>>

\* SELECT site, word, count FROM word_counts ORDER BY site: the rows
\* sorted by site, rows of the same site in any order.
RECURSIVE QueryFrom(_, _)
QueryFrom(db, todo) ==
  IF todo = {} THEN {<<>>}
  ELSE LET site == CHOOSE t \in todo : \A u \in todo : t <= u
           idx == {k \in 1..Len(db) : db[k].site = site}
       IN {[k \in 1..Cardinality(idx) |-> db[p[k]]] \o rest :
             p \in Orders(idx), rest \in QueryFrom(db, todo \ {site})}

Query(db) == QueryFrom(db, Targets)

\* siteData[site][word] = count, creating siteData[site] when absent.
FoldRowKeepFirst(m, r) ==
  IF r.site \in DOMAIN m
    THEN IF r.word \in DOMAIN m[r.site]
           THEN m
           ELSE [m EXCEPT ![r.site] = @ @@ (r.word :> r.count)]
    ELSE m @@ (r.site :> (r.word :> r.count))

FoldRow(m, r) ==
  IF r.site \in DOMAIN m
    THEN [m EXCEPT ![r.site] = (r.word :> r.count) @@ @]
    ELSE m @@ (r.site :> (r.word :> r.count))

\* The loop over rows.Next().
RECURSIVE Fold(_, _)
Fold(m, rows) == IF rows = <<>> THEN m ELSE Fold(FoldRow(m, Head(rows)), Tail(rows))

\* ------------------------------------------------------- the steps of main

\* sql.Open and CREATE TABLE IF NOT EXISTS scraped_data; log.Fatalf on error.
NewScraper ==
  /\ mainPc = "start"
  /\ \/ /\ mainPc' = "fatal"
        /\ UNCHANGED <<varsCount, varsConfig, tables>>
     \/ /\ mainPc' = "setup"
        /\ tables' = tables \cup {"scraped_data"}
        /\ Concurrency' = DefaultConcurrency
        /\ CustomParsers' = {}
        /\ UNCHANGED Sites
  /\ UNCHANGED <<varsCount, scraped_data, word_counts, varsRun, mainI, mainJ, clearTable,
                 cleared, evaluated, old, inserts, call, export>>

\* CREATE TABLE IF NOT EXISTS word_counts; log.Fatalf on error.
SetupDatabaseLogsOnly ==
  /\ mainPc = "setup"
  /\ \/ /\ mainPc' = "clear"
        /\ UNCHANGED tables
     \/ /\ mainPc' = "clear"
        /\ tables' = tables \cup {"word_counts"}
  /\ UNCHANGED <<varsCount, varsConfig, scraped_data, word_counts, varsRun, mainI, mainJ,
                 clearTable, cleared, evaluated, old, inserts, call, export>>

SetupDatabase ==
  /\ mainPc = "setup"
  /\ \/ /\ mainPc' = "fatal"
        /\ UNCHANGED tables
     \/ /\ mainPc' = "clear"
        /\ tables' = tables \cup {"word_counts"}
  /\ UNCHANGED <<varsCount, varsConfig, scraped_data, word_counts, varsRun, mainI, mainJ,
                 clearTable, cleared, evaluated, old, inserts, call, export>>

\* if *clearTable { scraper.ClearWordCountsTable() }: the DELETE succeeds
\* or its error is logged.
ClearWordCountsTable ==
  /\ mainPc = "clear"
  /\ clearTable
  /\ \E ok \in BOOLEAN :
       /\ word_counts' = IF ok THEN ClearRows(word_counts) ELSE word_counts
       /\ cleared' = IF ok THEN "ok" ELSE "error"
  /\ mainPc' = "sites"
  /\ UNCHANGED <<varsCount, varsConfig, tables, scraped_data, varsRun, mainI, mainJ,
                 clearTable, evaluated, old, inserts, call, export>>

MainNoClear ==
  /\ mainPc = "clear"
  /\ ~clearTable
  /\ mainPc' = "sites"
  /\ UNCHANGED <<varsCount, varsConfig, varsStore, varsRun, mainI, mainJ, clearTable,
                 cleared, evaluated, old, inserts, call, export>>

\* scraper.Sites = []string{...}
MainSites ==
  /\ mainPc = "sites"
  /\ Sites' \in MainSiteLists
  /\ mainPc' = "search"
  /\ mainI' = 1
  /\ mainJ' = 1
  /\ UNCHANGED <<varsCount, Concurrency, CustomParsers, varsStore, varsRun, clearTable,
                 cleared, evaluated, old, inserts, call, export>>

\* The loop position after the current (site, word) pair.
NextPair ==
  /\ mainI' = IF mainJ < Len(wordsToSearch) THEN mainI ELSE mainI + 1
  /\ mainJ' = IF mainJ < Len(wordsToSearch) THEN mainJ + 1 ELSE 1

CallIdle == call.pc \in {"none", "returned"}

\* scraper.SearchWordInSite(site, word) up to the result of FetchURL.
SearchFetch ==
  /\ mainPc = "search"
  /\ mainI <= Len(Sites)
  /\ CallIdle
  /\ LET site == Sites[mainI]
         word == wordsToSearch[mainJ]
         c == [NoCall EXCEPT !.site = site, !.word = word,
                             !.before = call.outcome]
     IN /\ evaluated' = Append(evaluated, <<site, word>>)
        /\ \E r \in FetchOutcomes("plain") :
             LET cb == [c EXCEPT !.body = BodyAfter("plain", r)]
             IN IF r = "content"
                  THEN /\ \E d \in DocPool :
                            call' = [cb EXCEPT !.pc = "parse", !.doc = d]
                       /\ UNCHANGED <<word_counts, mainI, mainJ>>
                  ELSE /\ call' = [cb EXCEPT !.pc = "returned",
                                             !.outcome = "fetch_error"]
                       /\ word_counts' = OnSearchError(word_counts, site, word)
                       /\ NextPair
  /\ UNCHANGED <<varsCount, varsConfig, tables, scraped_data, varsRun, mainPc, clearTable,
                 cleared, old, inserts, export>>

\* goquery.NewDocumentFromReader in SearchWordInSite.
SearchParse ==
  /\ call.pc = "parse"
  /\ \/ /\ call' = [call EXCEPT !.pc = "count"]
        /\ UNCHANGED <<varsCount, word_counts, mainI, mainJ>>
     \/ /\ call' = [call EXCEPT !.pc = "returned", !.outcome = "parse_error",
                                !.doc = NoDoc, !.body = Close(@)]
        /\ word_counts' = OnSearchError(word_counts, call.site, call.word)
        /\ NextPair
  /\ UNCHANGED <<varsCount, varsConfig, tables, scraped_data, varsRun, mainPc, clearTable,
                 cleared, evaluated, old, inserts, export>>

\* The count over the body and the INSERT INTO word_counts.
SearchInsert ==
  /\ call.pc = "count"
  /\ LET total == FoundInstances(call.doc, call.word)
     IN \E ok \in BOOLEAN :
          /\ word_counts' =
               InsertWordCount(word_counts, call.site, call.word, total, ok)
          /\ call' = [call EXCEPT !.pc = "returned", !.total = total, !.doc = NoDoc,
                                  !.body = Close(@),
                                  !.outcome = IF ok THEN "ok" ELSE "insert_error"]
          /\ inserts' = Len(word_counts') - Len(word_counts) + inserts
  /\ NextPair
  /\ UNCHANGED <<varsCount, varsConfig, tables, scraped_data, varsRun, mainPc, clearTable,
                 cleared, evaluated, old, export>>

\* Both loops of main are over.
MainSearchEnd ==
  /\ mainPc = "search"
  /\ mainI > Len(Sites)
  /\ CallIdle
  /\ mainPc' = "export"
  /\ UNCHANGED <<varsCount, varsConfig, varsStore, varsRun, mainI, mainJ, clearTable,
                 cleared, evaluated, old, inserts, call, export>>

\* ------------------------------------------- ExportWordCountsToCSVGrouped

Header == <<"Site", "Words and Counts">>

\* os.Create (log.Fatalf on error), csv.NewWriter, the header row.
ExportCreate ==
  /\ mainPc = "export"
  /\ export.pc = "none"
  /\ \/ /\ mainPc' = "fatal"
        /\ UNCHANGED export
     \/ /\ export' = [export EXCEPT !.pc = "created", !.written = <<Header>>]
        /\ UNCHANGED mainPc
  /\ UNCHANGED <<varsCount, varsConfig, varsStore, varsRun, mainI, mainJ, clearTable,
                 cleared, evaluated, old, inserts, call>>

\* s.DB.Query (log.Fatalf on error: the process exits, nothing is flushed).
ExportQuery ==
  /\ export.pc = "created"
  /\ mainPc = "export"
  /\ \/ /\ mainPc' = "fatal"
        /\ UNCHANGED export
     \/ /\ \E q \in Query(word_counts) :
             export' = [export EXCEPT !.pc = "queried", !.qrows = q]
        /\ UNCHANGED mainPc
  /\ UNCHANGED <<varsCount, varsConfig, varsStore, varsRun, mainI, mainJ, clearTable,
                 cleared, evaluated, old, inserts, call>>

\* for rows.Next() {...}: the rows folded into siteData.
ExportFold ==
  /\ export.pc = "queried"
  /\ export' = [export EXCEPT !.pc = "folded",
                              !.siteData = Fold(<<>>, export.qrows)]
  /\ UNCHANGED <<varsCount, varsConfig, varsStore, varsRun, mainPc, mainI, mainJ, clearTable,
                 cleared, evaluated, old, inserts, call>>

WrittenSites ==
  {export.written[k][1] : k \in 2..Len(export.written)}

\* One iteration of for site, words := range siteData: Go visits the
\* entries of a map in no particular order, here and in the inner loop.
ExportWrite ==
  /\ export.pc = "folded"
  /\ \E site \in DOMAIN export.siteData \ WrittenSites :
       \E p \in Orders(DOMAIN export.siteData[site]) :
         LET wordCounts ==
               [k \in 1..Len(p) |-> Entry(p[k], export.siteData[site][p[k]])]
         IN export' = [export EXCEPT
                         !.written = Append(@, <<site, Join(wordCounts)>>)]
  /\ UNCHANGED <<varsCount, varsConfig, varsStore, varsRun, mainPc, mainI, mainJ, clearTable,
                 cleared, evaluated, old, inserts, call>>

\* The map is exhausted: the deferred writer.Flush, rows.Close, file.Close.
ExportReturn ==
  /\ export.pc = "folded"
  /\ DOMAIN export.siteData \subseteq WrittenSites
  /\ export' = [export EXCEPT !.pc = "returned", !.file = export.written]
  /\ mainPc' = "exit"
  /\ UNCHANGED <<varsCount, varsConfig, varsStore, varsRun, mainI, mainJ, clearTable,
                 cleared, evaluated, old, inserts, call>>

\* ----------------------------------------------------- properties of main

\* The row a call of SearchWordInSite that has parsed its document inserts.
CallRow == WordRow(call.site, call.word, FoundInstances(call.doc, call.word))

\* C3 as stated: a call that fetched and parsed appends exactly one row
\* (target, word, total), whatever happens then.
SearchAppendsExactlyOne ==
  [][call.pc = "count" => word_counts' = Append(word_counts, CallRow)]_vars

\* C3 as amended: a call that fetched and parsed attempts the insert of
\* (target, word, total) exactly once; the table gains exactly that row when
\* the insert succeeds and no row when the insert fails; the fetch and the
\* parse steps of the call write nothing.
SearchAppendsOneUnlessInsertFails ==
  [][/\ call.pc = "count" =>
          \/ /\ call'.outcome = "ok"
             /\ call'.pc = "returned"
             /\ word_counts' = Append(word_counts, CallRow)
          \/ /\ call'.outcome = "insert_error"
             /\ call'.pc = "returned"
             /\ word_counts' = word_counts
     /\ (mainPc = "search" /\ call.pc # "count") => word_counts' = word_counts
    ]_vars

SearchAppendsOneWitness ==
  /\ call.pc = "returned"
  /\ call.outcome = "ok"
  /\ call.total = 0
  /\ word_counts # <<>>
  /\ Last(word_counts) = WordRow(call.site, call.word, 0)
  /\ inserts = 1

\* Every (site, word) pair of main's two loops, in loop order.
AllPairs ==
  [k \in 1..(Len(Sites) * Len(wordsToSearch)) |->
     <<Sites[((k - 1) \div Len(wordsToSearch)) + 1],
       wordsToSearch[((k - 1) % Len(wordsToSearch)) + 1]>>]

\* A step in which a call of SearchWordInSite returns after a failed fetch
\* or a failed parse.
SearchFails ==
  /\ call'.pc = "returned"
  /\ call'.outcome \in {"fetch_error", "parse_error"}
  /\ call.pc = "parse" \/ evaluated' # evaluated

\* C4: a call whose fetch or parse fails leaves both tables as they were
\* and main goes on with the next pair; when the loops are over, every pair
\* has been evaluated, in loop order.
SearchFailureContained ==
  /\ [][SearchFails =>
          /\ word_counts' = word_counts
          /\ scraped_data' = scraped_data
          /\ mainPc' = "search"
          /\ <<mainI', mainJ'>> # <<mainI, mainJ>>
          /\ Len(evaluated') =
               (mainI' - 1) * Len(wordsToSearch) + (mainJ' - 1)]_vars
  /\ [](mainPc \in {"export", "exit"} => evaluated = AllPairs)

SearchFailureWitness ==
  /\ mainPc = "exit"
  /\ Len(evaluated) = 4
  /\ call.before \in {"fetch_error", "parse_error"}
  /\ call.outcome = "ok"
  /\ Last(word_counts) = WordRow(call.site, call.word, call.total)
  /\ Len(word_counts) = Len(old) + 1
  /\ old # <<>>

\* C5 as stated: after ClearWordCountsTable, with no insert since, the
\* grouped read-back is the empty mapping and the export has no data row.
ClearThenEmpty ==
  (export.pc \in {"folded", "returned"} /\ cleared # "no" /\ inserts = 0) =>
    /\ export.siteData = <<>>
    /\ export.written = <<Header>>

\* C5 as amended: after a ClearWordCountsTable whose DELETE succeeded, with
\* no insert since, the grouped read-back is the empty mapping and the
\* export has no data row, whatever rows the table held before.
ClearedThenEmpty ==
  (export.pc \in {"folded", "returned"} /\ cleared = "ok" /\ inserts = 0) =>
    /\ export.siteData = <<>>
    /\ export.written = <<Header>>
    /\ export.pc = "returned" => export.file = <<Header>>

ClearedThenEmptyWitness ==
  /\ export.pc = "returned"
  /\ cleared = "ok"
  /\ inserts = 0
  /\ Len(old) = 2
  /\ old[1].site # old[2].site
  /\ Len(evaluated) > 0

\* C8: the data rows are written in ascending order of the target.
ExportRowsSorted ==
  \A a, b \in 2..Len(export.written) :
    a < b => export.written[a][1] < export.written[b][1]

SitesIn(rows) == {rows[k].site : k \in 1..Len(rows)}

WordsOf(rows, site) ==
  {rows[k].word : k \in {j \in 1..Len(rows) : rows[j].site = site}}

CountsOf(rows, site, word) ==
  {rows[k].count :
     k \in {j \in 1..Len(rows) : rows[j].site = site /\ rows[j].word = word}}

\* The entry the claims describe: the word, a colon, a space, the count in
\* decimal digits.
DecimalDigits == <<"0", "1", "2", "3", "4", "5", "6", "7", "8", "9">>

RECURSIVE Decimal(_)
Decimal(n) ==
  IF n < 10 THEN <<DecimalDigits[n + 1]>>
  ELSE Decimal(n \div 10) \o <<DecimalDigits[(n % 10) + 1]>>

WordColonCount(word, count) == word \o <<":", " ">> \o Decimal(count)

\* The parts with " | " between each two neighbours.
RECURSIVE BarJoined(_)
BarJoined(parts) ==
  IF Len(parts) = 0 THEN <<>>
  ELSE IF Len(parts) = 1 THEN Head(parts)
  ELSE Head(parts) \o <<" ", "|", " ">> \o BarJoined(Tail(parts))

\* Every field made of one entry "word: count" per word of W, in some
\* order, joined by " | ", the count of a word taken from counts[word].
FieldsOver(W, counts) ==
  {BarJoined([k \in 1..Len(p) |-> WordColonCount(p[k], c[p[k]])]) :
     p \in Orders(W),
     c \in {f \in [W -> UNION {counts[w] : w \in W}] :
              \A w \in W : f[w] \in counts[w]}}

\* C9: a finished export holds the header first, then exactly one row for
\* each target of the table and none else; the second field of a row holds
\* exactly one entry "word: count" for each word observed for the target,
\* with a count observed for that pair, the entries joined by " | ".
ExportFormat ==
  /\ export.pc # "none" => export.written[1] = Header
  /\ export.pc = "returned" =>
       LET f == export.file
       IN /\ f[1] = Header
          /\ Len(f) = 1 + Cardinality(SitesIn(word_counts))
          /\ {f[k][1] : k \in 2..Len(f)} = SitesIn(word_counts)
          /\ \A k \in 2..Len(f) :
               LET W == WordsOf(word_counts, f[k][1])
               IN f[k][2] \in FieldsOver(W,
                    [w \in W |-> CountsOf(word_counts, f[k][1], w)])

ExportFormatWitness ==
  /\ export.pc = "returned"
  /\ Len(export.file) = 3
  /\ \E k \in 2..3 :
       /\ Cardinality(WordsOf(word_counts, export.file[k][1])) = 2
       /\ Len(export.file[k][2]) >= 13

\* The position in the query result of the last row of a pair.
LastOf(rows, site, word) ==
  CHOOSE k \in 1..Len(rows) :
    /\ rows[k].site = site
    /\ rows[k].word = word
    /\ \A j \in (k + 1)..Len(rows) : ~(rows[j].site = site /\ rows[j].word = word)

\* C10: the grouped mapping holds, for every pair of the table, the count
\* of the last row of that pair in the order the query returned the rows,
\* the exported row of a target shows these counts, and the read-back
\* leaves the rows of the table as they were.
LastWriteWins ==
  /\ [](export.pc \in {"folded", "returned"} =>
          LET q == export.qrows
              m == export.siteData
          IN /\ DOMAIN m = SitesIn(q)
             /\ \A site \in SitesIn(q) :
                  /\ DOMAIN m[site] = WordsOf(q, site)
                  /\ \A word \in WordsOf(q, site) :
                       m[site][word] = q[LastOf(q, site, word)].count
             /\ \A k \in 2..Len(export.written) :
                  LET site == export.written[k][1]
                      W == WordsOf(q, site)
                  IN export.written[k][2] \in
                       FieldsOver(W, [w \in W |-> {q[LastOf(q, site, w)].count}]))
  /\ [][mainPc = "export" => word_counts' = word_counts]_vars

LastWriteWinsWitness ==
  /\ export.pc = "returned"
  /\ \E a, b \in 1..Len(export.qrows) :
       /\ a < b
       /\ export.qrows[a].site = export.qrows[b].site
       /\ export.qrows[a].word = export.qrows[b].word
       /\ export.qrows[a].count = 2
       /\ export.qrows[b].count = 7
       /\ word_counts[1] = export.qrows[b]

\* --------------------------------------------------------- specifications

InitRun ==
  /\ Sites \in SiteLists
  /\ Concurrency \in 0..MaxConcurrency
  /\ CustomParsers \in Registries
  /\ tables = AllTables
  /\ scraped_data = OldScraped
  /\ word_counts = <<>>
  /\ runPc = "idle"
  /\ runI = 0
  /\ wg = 0
  /\ sem = 0
  /\ unit = [i \in 1..Len(Sites) |-> NewUnit]
  /\ MainIdle
  /\ CountIdle

NextRun ==
  \/ RunEnter
  \/ RunAdd
  \/ RunAcquire
  \/ RunGo
  \/ RunLoopEnd
  \/ RunWait
  \/ \E i \in DOMAIN unit : ProcessSiteBegin(i)
  \/ \E i \in DOMAIN unit : ProcessSiteFetch(i)
  \/ \E i \in DOMAIN unit : ProcessSiteParse(i)
  \/ \E i \in DOMAIN unit : ProcessSiteCustom(i)
  \/ \E i \in DOMAIN unit : ProcessSiteLink(i)
  \/ \E i \in DOMAIN unit : ProcessSiteReturn(i)
  \/ \E i \in DOMAIN unit : UnitRelease(i)
  \/ \E i \in DOMAIN unit : UnitDone(i)

SpecRun == InitRun /\ [][NextRun]_vars

Init ==
  /\ Sites = <<>>
  /\ Concurrency = 0
  /\ CustomParsers = {}
  /\ tables \in {{}, AllTables}
  /\ scraped_data = IF tables = {} THEN <<>> ELSE OldScraped
  /\ word_counts \in (IF tables = {} THEN {<<>>} ELSE OldWordCounts)
  /\ RunIdle
  /\ CountIdle
  /\ mainPc = "start"
  /\ mainI = 0
  /\ mainJ = 0
  /\ clearTable \in BOOLEAN
  /\ cleared = "no"
  /\ evaluated = <<>>
  /\ old = word_counts
  /\ inserts = 0
  /\ call = NoCall
  /\ export = NoExport

Next ==
  \/ NewScraper
  \/ SetupDatabase
  \/ ClearWordCountsTable
  \/ MainNoClear
  \/ MainSites
  \/ SearchFetch
  \/ SearchParse
  \/ SearchInsert
  \/ MainSearchEnd
  \/ ExportCreate
  \/ ExportQuery
  \/ ExportFold
  \/ ExportWrite
  \/ ExportReturn

Spec == Init /\ [][Next]_vars

\* Either entry point of the code: the program of main, or a caller of
\* Scraper.Run (main itself never calls Run).
InitAll == Init \/ InitRun

NextAll == Next \/ NextRun

SpecAll == InitAll /\ [][NextAll]_vars

\* ---------------------------------------------------- properties of the store

\* b is a with exactly one row added at the end.
OneRowAdded(a, b) == Len(b) = Len(a) + 1 /\ SubSeq(b, 1, Len(a)) = a

\* The step is the DELETE of ClearWordCountsTable succeeding.
ClearStep ==
  /\ mainPc = "clear"
  /\ clearTable
  /\ cleared' = "ok"

\* The step is an INSERT that succeeded: of saveData in a unit, or of
\* SearchWordInSite.
ScrapedInsertStep ==
  \E i \in DOMAIN unit :
    /\ Len(unit'[i].tried) = Len(unit[i].tried) + 1
    /\ Last(unit'[i].tried).ok

WordInsertStep == call.pc = "count" /\ call'.outcome = "ok"

\* C11: whatever the operation, a step leaves the rows of both tables as
\* they are, or adds exactly one row at the end of one table and leaves
\* every other row as it is (an insert that succeeded does exactly that),
\* or is the DELETE of ClearWordCountsTable, which empties word_counts and
\* leaves scraped_data alone; no row is ever modified, no scraped_data row
\* is ever removed.
StoreAdditive ==
  [][/\ \/ scraped_data' = scraped_data
        \/ OneRowAdded(scraped_data, scraped_data') /\ word_counts' = word_counts
     /\ \/ word_counts' = word_counts
        \/ OneRowAdded(word_counts, word_counts') /\ scraped_data' = scraped_data
        \/ ClearStep /\ word_counts' = <<>> /\ scraped_data' = scraped_data
     /\ ScrapedInsertStep => OneRowAdded(scraped_data, scraped_data')
     /\ WordInsertStep => OneRowAdded(word_counts, word_counts')
     /\ ClearStep => word_counts' = <<>>
    ]_vars

StoreAdditiveWitness ==
  /\ export.pc = "returned"
  /\ cleared = "ok"
  /\ Len(old) = 2
  /\ inserts = 2
  /\ Len(word_counts) = 2
  /\ scraped_data = OldScraped

\* ------------------------------------------------------------ termination

\* The steps of the goroutine calling Run, and of the goroutine of entry i.
RunStep ==
  \/ RunEnter
  \/ RunAdd
  \/ RunAcquire
  \/ RunGo
  \/ RunLoopEnd
  \/ RunWait

UnitStep(i) ==
  /\ i \in DOMAIN unit
  /\ \/ ProcessSiteBegin(i)
     \/ ProcessSiteFetch(i)
     \/ ProcessSiteParse(i)
     \/ ProcessSiteCustom(i)
     \/ ProcessSiteLink(i)
     \/ ProcessSiteReturn(i)
     \/ UnitRelease(i)
     \/ UnitDone(i)

\* The Go scheduler runs every goroutine that can take a step; fetches and
\* parses return (the client of NewScraper has a timeout).
FairRun ==
  /\ WF_vars(RunStep)
  /\ \A i \in 1..MaxSites : WF_vars(UnitStep(i))

GateSizes == {0, 1, 2}

InitFairRun == InitRun /\ Concurrency \in GateSizes

FairSpecRun == InitFairRun /\ [][NextRun]_vars /\ FairRun

\* C12: with a gate of capacity at least 1, every entry of the list is
\* eventually dispatched and processed to its end and Run eventually
\* returns, whichever units fail.
RunTerminates ==
  (Concurrency >= 1) =>
    <>(/\ runPc = "returned"
       /\ \A i \in DOMAIN unit : unit[i].pc = "exited")

RunTerminatesWitness ==
  /\ Concurrency = 1
  /\ Len(Sites) = 2
  /\ runPc = "returned"
  /\ \A i \in DOMAIN unit : unit[i].pc = "exited"
  /\ unit[1].outcome = "fetch_error"
  /\ unit[2].outcome = "completed"

\* ---------------------------------------------------- countWordOccurrences

MaxText == 3

MaxWord == 2

\* Letters in both cases.
Letters == {"n", "N", "e", "E"}

StringsUpTo(n) == UNION {[1..k -> Letters] : k \in 0..n}

\* A call of countWordOccurrences(text, word) is about to be made.
InitCount ==
  /\ Sites = <<>>
  /\ Concurrency = 0
  /\ CustomParsers = {}
  /\ tables = AllTables
  /\ scraped_data = <<>>
  /\ word_counts = <<>>
  /\ RunIdle
  /\ MainIdle
  /\ argText \in StringsUpTo(MaxText)
  /\ argWord \in StringsUpTo(MaxWord)
  /\ occurrences = -1

\* return strings.Count(strings.ToLower(text), strings.ToLower(word))
CountWordOccurrences ==
  /\ occurrences = -1
  /\ occurrences' = countWordOccurrences(argText, argWord)
  /\ UNCHANGED <<varsConfig, varsStore, varsRun, varsMain, argText, argWord>>

SpecCount == InitCount /\ [][CountWordOccurrences]_vars

\* Two letters that differ in case at most.
SameLetter(a, b) ==
  \/ a = b
  \/ {a, b} \in {{"n", "N"}, {"e", "E"}}

\* The positions of text where word occurs, whatever the case.
Occurs ==
  {p \in 1..(Len(argText) - Len(argWord) + 1) :
     \A k \in 1..Len(argWord) : SameLetter(argText[p + k - 1], argWord[k])}

\* S holds what a scan from the left takes: an occurrence is taken exactly
\* when it does not overlap an occurrence taken before it.
LeftToRight(S) ==
  \A p \in Occurs :
    p \in S <=> \A q \in S : q < p => q + Len(argWord) <= p

\* C13: the result of countWordOccurrences(text, word) is, for a word that
\* is not empty, the number of occurrences of word in text, compared
\* without regard to case, that a scan from the left takes without
\* overlap; for the empty word it is the length of text plus 1.
CountIsScan ==
  occurrences # -1 =>
    IF argWord = <<>>
      THEN occurrences = Len(argText) + 1
      ELSE \E S \in SUBSET Occurs :
             LeftToRight(S) /\ occurrences = Cardinality(S)

CountIsScanWitness ==
  /\ argText = <<"N", "n", "n">>
  /\ argWord = <<"n", "N">>
  /\ occurrences = 1

\* ------------------------------------------------- life cycle of an entry

\* Where entry u of the list stands within the call of Run.
Phase(u) ==
  IF u.pc = "none" THEN "Pending"
  ELSE IF u.outcome = "none" THEN "Dispatched"
  ELSE IF u.outcome = "completed" THEN "Completed"
  ELSE "Failed"

\* Entry i is dispatched by this step.
Dispatch(i) == Phase(unit[i]) = "Pending" /\ Phase(unit'[i]) = "Dispatched"

\* The slots of the gate that units hold whose goroutine has not yet
\* received from sem.
HeldByUnits ==
  Cardinality({j \in DOMAIN unit :
                 unit[j].pc \in {"spawned", "release"} \union Processing})

\* C14: an entry goes from Pending to Dispatched and from there to
\* Completed or to Failed and takes no other step between phases; entries
\* are dispatched one at a time in the order of the list, each by the step
\* that follows the acquisition of a slot for it (the gate then holds one
\* slot more than the units do); once Run has returned every entry is
\* Completed or Failed.
EntryLifeCycle ==
  /\ [](runPc = "returned" =>
          \A i \in DOMAIN unit : Phase(unit[i]) \in {"Completed", "Failed"})
  /\ [][\A i \in DOMAIN unit :
          /\ \/ Phase(unit'[i]) = Phase(unit[i])
             \/ Dispatch(i)
             \/ /\ Phase(unit[i]) = "Dispatched"
                /\ Phase(unit'[i]) \in {"Completed", "Failed"}
          /\ Dispatch(i) =>
               /\ runPc = "go"
               /\ sem = HeldByUnits + 1
               /\ \A j \in DOMAIN unit :
                    /\ j < i => Phase(unit[j]) # "Pending"
                    /\ j > i => Phase(unit[j]) = "Pending"
                    /\ j # i => ~Dispatch(j)
       ]_vars

EntryLifeCycleWitness ==
  /\ Len(Sites) = 2
  /\ runPc = "returned"
  /\ Phase(unit[1]) = "Failed"
  /\ Phase(unit[2]) = "Completed"

\* ------------------------------------------------------ slots of the gate

\* The units whose goroutine has received from sem.
Released == {j \in DOMAIN unit : unit[j].pc \in {"deferred", "exited"}}

\* The slots Run has acquired so far: one per entry handed to a goroutine,
\* and one for the entry about to be.
Acquired == IF runPc = "go" THEN runI ELSE IF runPc = "idle" THEN 0 ELSE runI - 1

\* C15: the gate never holds more slots than Concurrency nor fewer than 0;
\* the slots held are those acquired less one for each unit whose
\* processing has ended and that has released, whatever its outcome; a
\* step gives back at most one slot, and then it is the release of a unit
\* whose processing has ended and that had not released before; when Run
\* has returned every unit has released and no slot is held.
SlotAccounting ==
  /\ [](/\ 0 <= sem
        /\ sem <= Concurrency
        /\ runPc # "idle" => sem = Acquired - Cardinality(Released)
        /\ \A j \in Released : unit[j].outcome # "none"
        /\ runPc = "returned" => sem = 0 /\ Released = DOMAIN unit)
  /\ [][sem' < sem =>
          /\ sem' = sem - 1
          /\ \E i \in DOMAIN unit :
               /\ unit[i].pc = "release"
               /\ unit[i].outcome # "none"
               /\ Released' = Released \union {i}
               /\ i \notin Released
       ]_vars

SlotAccountingWitness ==
  /\ Len(Sites) = 2
  /\ Concurrency = 1
  /\ runPc = "returned"
  /\ sem = 0
  /\ unit[1].outcome = "strategy_error"
  /\ unit[2].outcome = "parse_error"

\* --------------------------------------------------------- default strategy

\* The positions of the anchors of unit i's document that carry an href.
WithHref(i) ==
  {k \in 1..Len(unit[i].doc.anchors) : unit[i].doc.anchors[k] # NoHref}

\* The n-th position of P from the left.
NthOf(P, n) == CHOOSE p \in P : Cardinality({q \in P : q < p}) = n - 1

\* C16: a unit whose target has no registered parser and whose fetch and
\* parse succeeded runs the default strategy; the inserts it has attempted
\* are, in document order, one (target, href) per anchor with an href that
\* Each has visited, and none for an anchor without; once the unit has
\* ended every anchor was visited and the outcome is "completed", also for
\* a document without such an anchor, for which nothing was attempted.
DefaultStrategyInserts ==
  \A i \in DOMAIN unit :
    (unit[i].parsed /\ Sites[i] \notin CustomParsers) =>
      LET visited == {k \in WithHref(i) : k < unit[i].k}
          tried == unit[i].tried
      IN /\ unit[i].path = "plain"
         /\ Len(tried) = Cardinality(visited)
         /\ \A n \in 1..Len(tried) :
              tried[n].data = unit[i].doc.anchors[NthOf(visited, n)]
         /\ unit[i].pc \in Ended =>
              /\ visited = WithHref(i)
              /\ unit[i].outcome = "completed"
              /\ WithHref(i) = {} => tried = <<>>

DefaultStrategyInsertsWitness ==
  \E i \in DOMAIN unit :
    /\ Sites[i] \notin CustomParsers
    /\ unit[i].pc \in Ended
    /\ unit[i].doc.anchors = <<"/x", NoHref, "/y">>
    /\ unit[i].tried = <<[data |-> "/x", ok |-> TRUE], [data |-> "/y", ok |-> TRUE]>>
    /\ CountRows(scraped_data, Sites[i], "/x") = 1
    /\ CountRows(scraped_data, Sites[i], "/y") = 1

\* ----------------------------------------------------------- failed inserts

\* Unit i attempts an insert in this step, and the insert fails.
ScrapedInsertFails(i) ==
  /\ Len(unit'[i].tried) = Len(unit[i].tried) + 1
  /\ ~unit'[i].tried[Len(unit'[i].tried)].ok

\* The INSERT of the call of SearchWordInSite fails in this step.
WordInsertFails == call.pc = "count" /\ call'.outcome = "insert_error"

Initialising == mainPc \in {"start", "setup"}

\* The step issues a statement on the rows of the store: the DELETE of
\* ClearWordCountsTable, the INSERT of SearchWordInSite, or the SELECT of
\* the export.
IssuesStatement ==
  \/ cleared' # cleared
  \/ call.pc = "count" /\ call'.pc = "returned"
  \/ export.pc = "created" /\ export'.pc = "queried"

\* C18: in the program of main no insert, clear or query is issued before
\* both tables exist, and none while main is initialising; an
\* initialisation step either creates its table if absent and goes on, or
\* ends the process, which takes no step after that: no target was
\* processed then; initialisation steps leave every row of both tables
\* as it is, so that the rows of an earlier run are still there when the
\* initialisation is over.
InitialisationFirst ==
  /\ [](Initialising =>
          /\ Sites = <<>>
          /\ evaluated = <<>>
          /\ call = NoCall
          /\ export = NoExport
          /\ cleared = "no"
          /\ word_counts = old)
  /\ [](mainPc \in {"clear", "sites", "search", "export", "exit"} =>
          tables = {"scraped_data", "word_counts"})
  /\ [][/\ IssuesStatement =>
             /\ ~Initialising
             /\ tables = {"scraped_data", "word_counts"}
        /\ Initialising =>
             /\ scraped_data' = scraped_data
             /\ word_counts' = word_counts
             /\ \/ mainPc' = "fatal" /\ tables' = tables
                \/ /\ mainPc = "start"
                   /\ mainPc' = "setup"
                   /\ tables' = tables \cup {"scraped_data"}
                \/ /\ mainPc = "setup"
                   /\ mainPc' = "clear"
                   /\ tables' = tables \cup {"word_counts"}
        /\ mainPc # "fatal"
       ]_vars

InitialisationFirstWitness ==
  /\ mainPc = "exit"
  /\ Len(old) = 2
  /\ cleared = "no"
  /\ inserts = 1
  /\ SubSeq(word_counts, 1, 2) = old
  /\ scraped_data = OldScraped

\* ------------------------------------------------------- a gate of size zero

\* C19: with Concurrency = 0 and a list that is not empty, Run comes to the
\* first sem <- struct{}{} and stays there for ever: no goroutine is ever
\* started, every entry stays as it was, Run never returns.  With an empty
\* list Run never comes to the acquisition and returns, for every
\* Concurrency, with no unit started.
GateOfZero ==
  /\ []((Concurrency = 0 /\ Sites # <<>>) =>
          /\ runPc \in {"idle", "loop", "acquire"}
          /\ sem = 0
          /\ \A i \in DOMAIN unit : unit[i] = NewUnit)
  /\ [](Sites = <<>> =>
          /\ runPc \in {"idle", "loop", "wait", "returned"}
          /\ sem = 0
          /\ wg = 0
          /\ unit = <<>>)
  /\ <>[](/\ (Concurrency = 0 /\ Sites # <<>>) =>
               runPc = "acquire" /\ runI = 1 /\ wg = 1
          /\ Sites = <<>> => runPc = "returned")

GateOfZeroWitness ==
  /\ Concurrency = 0
  /\ Len(Sites) = 2
  /\ runPc = "acquire"
  /\ runI = 1
  /\ wg = 1
  /\ sem = 0
  /\ \A i \in DOMAIN unit : unit[i].pc = "none"

\* ------------------------------------------------------------ response bodies

\* C20 as stated: when the processing of a target has ended, whether in a
\* unit of Run or in a call of SearchWordInSite, the response body the
\* fetch obtained is not open any more.
BodiesClosed ==
  /\ \A i \in DOMAIN unit : unit[i].pc \in Ended => unit[i].body # "open"
  /\ call.pc = "returned" => call.body # "open"

====
